---- MODULE Spec2Model ----
(***************************************************************************)
(* personio-py, src/personio_py/models.py: the field-mapping engine        *)
(* (FieldMapping family, DynamicAttr, PersonioResource) and the lifecycle  *)
(* verbs of WritablePersonioResource, as a state machine.                  *)
(*                                                                         *)
(* Python values are tagged records [t |-> <type>, v |-> <payload>]; a str *)
(* is the sequence of its characters, so that startswith, split, slicing   *)
(* and int() are computed and not assumed.  A dict is the sequence of its  *)
(* (key, value) items in insertion order.  int and float are one numeric   *)
(* kind "num" (7 == 7.0 in Python).                                        *)
(***************************************************************************)
EXTENDS Integers, Sequences, FiniteSets, TLC

VARIABLES
    field_mapping,   \* class -> PersonioResource.__field_mapping stored on that class
    label_mapping,   \* class -> PersonioResource.__label_mapping stored on that class
    namedtuple,      \* class -> PersonioResource.__namedtuple stored on that class
    unique_logs,     \* the module-level set _unique_logs
    logged,          \* what logger.log has emitted, in order
    objs,            \* the resource instances the caller holds, by slot
    authenticated,   \* client -> its authenticated attribute
    last,            \* the last call made and how it ended
    calls,           \* number of calls made so far
    life,            \* slot -> lifecycle state of spec section 4.4 (history)
    source,          \* slot -> the from_dict call that built the instance (history)
    seen,            \* class -> key -> label of the latest payload given to from_dict (history)
    threads          \* thread -> where it is in a from_dict call, and its local variables

vars == <<field_mapping, label_mapping, namedtuple, unique_logs, logged, objs,
          authenticated, last, calls, life, source, seen, threads>>

-----------------------------------------------------------------------------
(* Bounds of the model *)

NClients == 2
MaxCalls == 2
MaxPayload == 2
MaxLabelCalls == 3

Clients == 1..NClients

-----------------------------------------------------------------------------
(* String literals, as character sequences *)

s_dynamic_ == <<"d", "y", "n", "a", "m", "i", "c", "_">>
s_foo == <<"f", "o", "o">>
s_dynamic_3 == <<"d", "y", "n", "a", "m", "i", "c", "_", "3">>
s_dynamic_7 == <<"d", "y", "n", "a", "m", "i", "c", "_", "7">>
s_ID == <<"I", "D">>
s_First == <<"F", "i", "r", "s", "t">>
s_Vorname == <<"V", "o", "r", "n", "a", "m", "e">>
s_Hired == <<"H", "i", "r", "e", "d">>
s_Office == <<"O", "f", "f", "i", "c", "e">>
s_Costs == <<"C", "o", "s", "t", "s">>
s_Size == <<"S", "i", "z", "e">>
s_Shirt == <<"S", "h", "i", "r", "t">>
s_Ada == <<"A", "d", "a">>
s_7 == <<"7">>
s_M == <<"M">>
s_L == <<"L">>
s_x == <<"x">>
s_name == <<"n", "a", "m", "e">>
s_Berlin == <<"B", "e", "r", "l", "i", "n">>
s_timestamp == <<"2", "0", "2", "0", "-", "0", "8", "-", "2", "1", "T", "1", "8", ":", "0", "7", ":", "0", "6", "+", "0", "2", ":", "0", "0">>

(* the api_field names of Employee._field_mapping_list *)
a_id == <<"i", "d">>
a_first_name == <<"f", "i", "r", "s", "t", "_", "n", "a", "m", "e">>
a_last_name == <<"l", "a", "s", "t", "_", "n", "a", "m", "e">>
a_email == <<"e", "m", "a", "i", "l">>
a_gender == <<"g", "e", "n", "d", "e", "r">>
a_status == <<"s", "t", "a", "t", "u", "s">>
a_position == <<"p", "o", "s", "i", "t", "i", "o", "n">>
a_supervisor == <<"s", "u", "p", "e", "r", "v", "i", "s", "o", "r">>
a_employment_type == <<"e", "m", "p", "l", "o", "y", "m", "e", "n", "t", "_", "t", "y", "p", "e">>
a_weekly_working_hours == <<"w", "e", "e", "k", "l", "y", "_", "w", "o", "r", "k", "i", "n", "g", "_", "h", "o", "u", "r", "s">>
a_hire_date == <<"h", "i", "r", "e", "_", "d", "a", "t", "e">>
a_contract_end_date == <<"c", "o", "n", "t", "r", "a", "c", "t", "_", "e", "n", "d", "_", "d", "a", "t", "e">>
a_termination_date == <<"t", "e", "r", "m", "i", "n", "a", "t", "i", "o", "n", "_", "d", "a", "t", "e">>
a_termination_type == <<"t", "e", "r", "m", "i", "n", "a", "t", "i", "o", "n", "_", "t", "y", "p", "e">>
a_termination_reason == <<"t", "e", "r", "m", "i", "n", "a", "t", "i", "o", "n", "_", "r", "e", "a", "s", "o", "n">>
a_probation_period_end == <<"p", "r", "o", "b", "a", "t", "i", "o", "n", "_", "p", "e", "r", "i", "o", "d", "_", "e", "n", "d">>
a_created_at == <<"c", "r", "e", "a", "t", "e", "d", "_", "a", "t">>
a_last_modified_at == <<"l", "a", "s", "t", "_", "m", "o", "d", "i", "f", "i", "e", "d", "_", "a", "t">>
a_office == <<"o", "f", "f", "i", "c", "e">>
a_department == <<"d", "e", "p", "a", "r", "t", "m", "e", "n", "t">>
a_cost_centers == <<"c", "o", "s", "t", "_", "c", "e", "n", "t", "e", "r", "s">>
a_fix_salary == <<"f", "i", "x", "_", "s", "a", "l", "a", "r", "y">>
a_hourly_salary == <<"h", "o", "u", "r", "l", "y", "_", "s", "a", "l", "a", "r", "y">>
a_vacation_day_balance == <<"v", "a", "c", "a", "t", "i", "o", "n", "_", "d", "a", "y", "_", "b", "a", "l", "a", "n", "c", "e">>
a_last_working_day == <<"l", "a", "s", "t", "_", "w", "o", "r", "k", "i", "n", "g", "_", "d", "a", "y">>
a_holiday_calendar == <<"h", "o", "l", "i", "d", "a", "y", "_", "c", "a", "l", "e", "n", "d", "a", "r">>
a_work_schedule == <<"w", "o", "r", "k", "_", "s", "c", "h", "e", "d", "u", "l", "e">>
a_absence_entitlement == <<"a", "b", "s", "e", "n", "c", "e", "_", "e", "n", "t", "i", "t", "l", "e", "m", "e", "n", "t">>
a_profile_picture == <<"p", "r", "o", "f", "i", "l", "e", "_", "p", "i", "c", "t", "u", "r", "e">>
a_team == <<"t", "e", "a", "m">>

-----------------------------------------------------------------------------
(* Python values *)

NoneV == [t |-> "None"]

Str(s) == [t |-> "str", v |-> s]

Num(n) == [t |-> "num", v |-> n]

List(xs) == [t |-> "list", v |-> xs]

Dict(items) == [t |-> "dict", v |-> items]

Client(c) == [t |-> "client", v |-> c]

IsNone(x) == x.t = "None"

(* an exception raised by a call: its type and arguments *)
Raised(type, args) == [status |-> "raised", type |-> type, args |-> args]

Returned(value) == [status |-> "returned", value |-> value]

-----------------------------------------------------------------------------
(* The class hierarchy *)

ReferenceClasses == {"AbsenceEntitlement", "AbsenceType", "CostCenter", "Department",
                     "HolidayCalendar", "Office", "ShortEmployee", "Team", "WorkSchedule"}

WritableClasses == {"WritablePersonioResource", "Absence", "Attendance", "Employee"}

Classes == {"PersonioResource"} \cup ReferenceClasses \cup WritableClasses

(* the method resolution order of a class: itself, then its bases *)
MRO(c) ==
    IF c = "PersonioResource" THEN <<c>>
    ELSE IF c \in {"Absence", "Attendance", "Employee"}
         THEN <<c, "WritablePersonioResource", "PersonioResource">>
         ELSE <<c, "PersonioResource">>

(* the _can_create/_can_update/_can_delete attributes set in each class body *)
OwnCapabilities(c) ==
    CASE c = "WritablePersonioResource" ->
             [create |-> TRUE, update |-> TRUE, delete |-> TRUE]
      [] c = "Absence" -> [update |-> FALSE]
      [] c = "Employee" -> [delete |-> FALSE]
      [] OTHER -> <<>>

(* the _create/_update/_delete methods defined in each class body:           *)
(*   "raise"     the body raises UnsupportedMethodError(verb, self.__class__) *)
(*   "construct" the body builds that error and drops it: returns None        *)
(*   "pass"      the body is pass: returns None                               *)
OwnHooks(c) ==
    CASE c = "WritablePersonioResource" ->
             [create |-> "raise", update |-> "construct", delete |-> "construct"]
      [] c = "Absence" -> [create |-> "pass", delete |-> "pass"]
      [] c = "Attendance" -> [create |-> "pass", update |-> "pass", delete |-> "pass"]
      [] c = "Employee" -> [create |-> "pass", update |-> "pass"]
      [] OTHER -> <<>>

(* attribute lookup along the MRO: the value in the first of the class       *)
(* bodies, given in MRO order, that defines the verb                         *)
FirstDefining(bodies, verb) ==
    bodies[CHOOSE i \in 1..Len(bodies) :
               /\ verb \in DOMAIN bodies[i]
               /\ \A j \in 1..(i - 1) : verb \notin DOMAIN bodies[j]][verb]

Capability(c, verb) ==
    FirstDefining([i \in 1..Len(MRO(c)) |-> OwnCapabilities(MRO(c)[i])], verb)

Hook(c, verb) ==
    FirstDefining([i \in 1..Len(MRO(c)) |-> OwnHooks(MRO(c)[i])], verb)

Verbs == {"create", "update", "delete"}

-----------------------------------------------------------------------------
(* Resource instances: the class and the attributes __init__ has set *)

NoCaches == [c \in Classes |-> NoneV]

(* the slots of the (at most two) instances the caller holds *)
Slots == {1, 2}

Instance(c, attrs) == [t |-> "obj", cls |-> c, attrs |-> attrs]

(* DynamicAttr(field_id, label, value) *)
DynamicAttr(field_id, label, value) ==
    [t |-> "DynamicAttr", field_id |-> field_id, label |-> label, value |-> value]

-----------------------------------------------------------------------------
(* The transport client (personio_py.Personio), known only by its interface: *)
(* the attribute authenticated and authenticate(), which either raises or    *)
(* leaves the client authenticated.                                          *)

Authenticate(auth, c, ok) ==
    IF ok THEN [raised |-> FALSE, auth |-> [auth EXCEPT ![c] = TRUE]]
          ELSE [raised |-> TRUE, auth |-> auth]

-----------------------------------------------------------------------------
(* WritablePersonioResource: create / update / delete *)

(* _check_client that prefers the stored client over the argument *)
CheckClientStoredFirst(self, client, auth, ok) ==
    LET resolved == IF ~IsNone(self.attrs["_client"]) THEN self.attrs["_client"] ELSE client
        enter == <<[ev |-> "check_client"]>>
    IN  IF IsNone(resolved)
        THEN [result |-> Raised("PersonioError", <<>>), auth |-> auth, events |-> enter]
        ELSE LET read == [ev |-> "read_authenticated", client |-> resolved.v,
                          value |-> auth[resolved.v]]
             IN  IF ~auth[resolved.v]
                 THEN LET a == Authenticate(auth, resolved.v, ok)
                          evs == enter \o <<read, [ev |-> "authenticate", client |-> resolved.v]>>
                      IN  IF a.raised
                          THEN [result |-> Raised("AuthenticationError", <<>>),
                                auth |-> a.auth, events |-> evs]
                          ELSE [result |-> Returned(resolved), auth |-> a.auth, events |-> evs]
                 ELSE [result |-> Returned(resolved), auth |-> auth,
                       events |-> enter \o <<read>>]

(* _check_client that authenticates without reading client.authenticated *)
CheckClientAlwaysAuthenticates(self, client, auth, ok) ==
    LET resolved == IF ~IsNone(client) THEN client ELSE self.attrs["_client"]
        enter == <<[ev |-> "check_client"]>>
    IN  IF IsNone(resolved)
        THEN [result |-> Raised("PersonioError", <<>>), auth |-> auth, events |-> enter]
        ELSE LET read == [ev |-> "read_authenticated", client |-> resolved.v,
                          value |-> auth[resolved.v]]
                 a == Authenticate(auth, resolved.v, ok)
                 evs == enter \o <<read, [ev |-> "authenticate", client |-> resolved.v]>>
             IN  IF a.raised
                 THEN [result |-> Raised("AuthenticationError", <<>>),
                       auth |-> a.auth, events |-> evs]
                 ELSE [result |-> Returned(resolved), auth |-> a.auth, events |-> evs]

(* _check_client(self, client): the client to use, or the error raised;       *)
(* ok is whether client.authenticate(), if it is called, returns normally     *)
CheckClient(self, client, auth, ok) ==
    LET resolved == IF ~IsNone(client) THEN client ELSE self.attrs["_client"]
        enter == <<[ev |-> "check_client"]>>
    IN  IF IsNone(resolved)
        THEN [result |-> Raised("PersonioError", <<>>), auth |-> auth, events |-> enter]
        ELSE LET read == [ev |-> "read_authenticated", client |-> resolved.v,
                          value |-> auth[resolved.v]]
             IN  IF ~auth[resolved.v]
                 THEN LET a == Authenticate(auth, resolved.v, ok)
                          evs == enter \o <<read, [ev |-> "authenticate", client |-> resolved.v]>>
                      IN  IF a.raised
                          THEN [result |-> Raised("AuthenticationError", <<>>),
                                auth |-> a.auth, events |-> evs]
                          ELSE [result |-> Returned(resolved), auth |-> a.auth, events |-> evs]
                 ELSE [result |-> Returned(resolved), auth |-> auth,
                       events |-> enter \o <<read>>]

(* self._create(client) / self._update(client) / self._delete(client) *)
RunHook(self, verb, client) ==
    [result |-> IF Hook(self.cls, verb) = "raise"
                THEN Raised("UnsupportedMethodError", <<verb, self.cls>>)
                ELSE Returned(NoneV),
     events |-> <<[ev |-> "hook", verb |-> verb, client |-> client.v]>>,
     self |-> self]

(* a hook that detaches the instance from its client once it is deleted *)
RunVerbForgetsClient(self, verb, client, auth, ok) ==
    IF Capability(self.cls, verb)
    THEN LET c == CheckClient(self, client, auth, ok)
         IN  IF c.result.status = "raised"
             THEN [result |-> c.result, auth |-> c.auth, events |-> c.events, self |-> self]
             ELSE LET h == RunHook(self, verb, c.result.value)
                  IN  [result |-> h.result, auth |-> c.auth, events |-> c.events \o h.events,
                       self |-> IF verb = "delete"
                                THEN [self EXCEPT !.attrs["_client"] = NoneV]
                                ELSE self]
    ELSE [result |-> Raised("UnsupportedMethodError", <<verb, self.cls>>),
          auth |-> auth, events |-> <<>>, self |-> self]

(* create/update/delete that resolve the client before testing the flag *)
RunVerbChecksClientFirst(self, verb, client, auth, ok) ==
    LET c == CheckClient(self, client, auth, ok)
    IN  IF Capability(self.cls, verb)
        THEN IF c.result.status = "raised"
             THEN [result |-> c.result, auth |-> c.auth, events |-> c.events, self |-> self]
             ELSE LET h == RunHook(self, verb, c.result.value)
                  IN  [result |-> h.result, auth |-> c.auth, events |-> c.events \o h.events,
                       self |-> h.self]
        ELSE [result |-> Raised("UnsupportedMethodError", <<verb, self.cls>>),
              auth |-> c.auth, events |-> c.events, self |-> self]

(* create(self, client) / update(self, client) / delete(self, client) *)
RunVerb(self, verb, client, auth, ok) ==
    IF Capability(self.cls, verb)
    THEN LET c == CheckClient(self, client, auth, ok)
         IN  IF c.result.status = "raised"
             THEN [result |-> c.result, auth |-> c.auth, events |-> c.events, self |-> self]
             ELSE LET h == RunHook(self, verb, c.result.value)
                  IN  [result |-> h.result, auth |-> c.auth, events |-> c.events \o h.events,
                       self |-> h.self]
    ELSE [result |-> Raised("UnsupportedMethodError", <<verb, self.cls>>),
          auth |-> auth, events |-> <<>>, self |-> self]

(* the lifecycle state of spec section 4.4 after a verb that returned normally *)
LifeAfter(state, verb) ==
    CASE verb = "create" -> "Persisted"
      [] verb = "update" -> state
      [] verb = "delete" -> "Deleted"

ClientArgs == {NoneV} \cup {Client(c) : c \in Clients}

(* one call of a lifecycle verb on the instance in a slot *)
CallVerb(slot, verb, client, ok) ==
    /\ ~IsNone(objs[slot])
    /\ objs[slot].cls \in WritableClasses
    /\ LET r == RunVerb(objs[slot], verb, client, authenticated, ok)
       IN  /\ last' = [op |-> verb, slot |-> slot, cls |-> objs[slot].cls,
                       client |-> client, stored |-> objs[slot].attrs["_client"],
                       result |-> r.result, events |-> r.events]
           /\ authenticated' = r.auth
           /\ objs' = [objs EXCEPT ![slot] = r.self]
           /\ life' = IF r.result.status = "returned"
                      THEN [life EXCEPT ![slot] = LifeAfter(life[slot], verb)]
                      ELSE life
    /\ calls' = calls + 1
    /\ UNCHANGED <<field_mapping, label_mapping, namedtuple, unique_logs, logged, source, seen,
                   threads>>

Create(slot, client, ok) == CallVerb(slot, "create", client, ok)

Update(slot, client, ok) == CallVerb(slot, "update", client, ok)

Delete(slot, client, ok) == CallVerb(slot, "delete", client, ok)

(* WritablePersonioResource.__init__(client, dynamic=None) and the __init__ of *)
(* its subclasses called with a client only: no dynamic attributes, and for    *)
(* Employee every field None                                                   *)
NoLast == [op |-> "none"]

-----------------------------------------------------------------------------
(* FieldMapping descriptors *)

FieldMapping(api_field, class_field, field_type) ==
    [kind |-> "plain", api_field |-> api_field, class_field |-> class_field,
     field_type |-> field_type]

NumericFieldMapping(api_field, class_field, field_type) ==
    [kind |-> "numeric", api_field |-> api_field, class_field |-> class_field,
     field_type |-> field_type]

DateFieldMapping(api_field, class_field) ==
    [kind |-> "date", api_field |-> api_field, class_field |-> class_field,
     field_type |-> "datetime"]

ObjectFieldMapping(api_field, class_field, field_type) ==
    [kind |-> "object", api_field |-> api_field, class_field |-> class_field,
     field_type |-> field_type]

ListFieldMapping(item_mapping) ==
    [kind |-> "list", api_field |-> item_mapping.api_field,
     class_field |-> item_mapping.class_field, field_type |-> "List",
     item_mapping |-> item_mapping]

EmployeeFieldMappingList == <<
    NumericFieldMapping(a_id, "id_", "int"),
    FieldMapping(a_first_name, "first_name", "str"),
    FieldMapping(a_last_name, "last_name", "str"),
    FieldMapping(a_email, "email", "str"),
    FieldMapping(a_gender, "gender", "str"),
    FieldMapping(a_status, "status", "str"),
    FieldMapping(a_position, "position", "str"),
    ObjectFieldMapping(a_supervisor, "supervisor", "ShortEmployee"),
    FieldMapping(a_employment_type, "employment_type", "str"),
    FieldMapping(a_weekly_working_hours, "weekly_working_hours", "str"),
    DateFieldMapping(a_hire_date, "hire_date"),
    DateFieldMapping(a_contract_end_date, "contract_end_date"),
    DateFieldMapping(a_termination_date, "termination_date"),
    FieldMapping(a_termination_type, "termination_type", "str"),
    FieldMapping(a_termination_reason, "termination_reason", "str"),
    DateFieldMapping(a_probation_period_end, "probation_period_end"),
    DateFieldMapping(a_created_at, "created_at"),
    DateFieldMapping(a_last_modified_at, "last_modified_at"),
    ObjectFieldMapping(a_office, "office", "Office"),
    ObjectFieldMapping(a_department, "department", "Department"),
    ListFieldMapping(ObjectFieldMapping(a_cost_centers, "cost_centers", "CostCenter")),
    NumericFieldMapping(a_fix_salary, "fix_salary", "float"),
    NumericFieldMapping(a_hourly_salary, "hourly_salary", "float"),
    NumericFieldMapping(a_vacation_day_balance, "vacation_day_balance", "float"),
    DateFieldMapping(a_last_working_day, "last_working_day"),
    ObjectFieldMapping(a_holiday_calendar, "holiday_calendar", "HolidayCalendar"),
    ObjectFieldMapping(a_work_schedule, "work_schedule", "WorkSchedule"),
    ObjectFieldMapping(a_absence_entitlement, "absence_entitlement", "AbsenceEntitlement"),
    FieldMapping(a_profile_picture, "profile_picture", "str"),
    ObjectFieldMapping(a_team, "team", "Team") >>

(* cls._field_mapping_list: Employee's own list, else PersonioResource's [] *)
FieldMappingList(c) == IF c = "Employee" THEN EmployeeFieldMappingList ELSE <<>>

ClassFields(c) == {FieldMappingList(c)[i].class_field : i \in 1..Len(FieldMappingList(c))}

-----------------------------------------------------------------------------
(* Constructors *)

(* the parameters of each __init__ besides self: those without a default,   *)
(* those with one, and whether **kwargs takes the rest                       *)
InitParams(c) ==
    CASE c = "PersonioResource" -> [required |-> {}, optional |-> {}, varkw |-> TRUE]
      [] c = "WritablePersonioResource" ->
             [required |-> {}, optional |-> {"client", "dynamic"}, varkw |-> TRUE]
      [] c = "AbsenceEntitlement" -> [required |-> {}, optional |-> {}, varkw |-> FALSE]
      [] c = "AbsenceType" -> [required |-> {"id_", "name"}, optional |-> {}, varkw |-> FALSE]
      [] c = "CostCenter" ->
             [required |-> {"id_", "name", "percentage"}, optional |-> {}, varkw |-> FALSE]
      [] c = "Department" -> [required |-> {"name"}, optional |-> {}, varkw |-> FALSE]
      [] c = "HolidayCalendar" ->
             [required |-> {"id_", "name", "country", "state"}, optional |-> {},
              varkw |-> FALSE]
      [] c = "Office" -> [required |-> {"name"}, optional |-> {}, varkw |-> FALSE]
      [] c = "ShortEmployee" ->
             [required |-> {"id_", "first_name", "last_name", "email"}, optional |-> {},
              varkw |-> FALSE]
      [] c = "Team" -> [required |-> {"id_", "name"}, optional |-> {}, varkw |-> FALSE]
      [] c = "WorkSchedule" ->
             [required |-> {"id_", "name", "monday", "tuesday", "wednesday", "thursday",
                            "friday", "saturday", "sunday"},
              optional |-> {}, varkw |-> FALSE]
      [] c = "Absence" ->
             [required |-> {},
              optional |-> {"client", "dynamic", "id_", "status", "comment", "start_date",
                            "end_date", "days_count", "half_day_start", "half_day_end",
                            "time_off_type", "employee", "certificate", "created_at"},
              varkw |-> FALSE]
      [] c = "Attendance" ->
             [required |-> {},
              optional |-> {"client", "dynamic", "employee_id", "date", "start_time",
                            "end_time", "break_duration", "comment", "is_holiday",
                            "is_on_time_off"},
              varkw |-> FALSE]
      [] c = "Employee" ->
             [required |-> {}, optional |-> {"client", "dynamic"} \cup ClassFields("Employee"),
              varkw |-> FALSE]

(* the parameters __init__ stores as attributes of the same name *)
StoredParams(c) ==
    CASE c = "Employee" -> ClassFields("Employee")
      [] c = "CostCenter" -> {"id_", "name", "percentage"}
      [] c \in {"Department", "Office"} -> {"name"}
      [] c = "HolidayCalendar" -> {"id_", "name", "country", "state"}
      [] c = "ShortEmployee" -> {"id_", "first_name", "last_name", "email"}
      [] c = "Team" -> {"id_", "name"}
      [] c = "WorkSchedule" -> InitParams(c).required
      [] OTHER -> {}

(* a dict as the sequence of its items: d[k] = v *)
DictSet(items, k, v) ==
    IF \E i \in 1..Len(items) : items[i][1] = k
    THEN [i \in 1..Len(items) |-> IF items[i][1] = k THEN <<k, v>> ELSE items[i]]
    ELSE Append(items, <<k, v>>)

DictKeys(items) == {items[i][1] : i \in 1..Len(items)}

DictGet(items, k) == items[CHOOSE i \in 1..Len(items) : items[i][1] = k][2]

(* {d.field_id: d for d in dynamic} *)
RECURSIVE ById(_)
ById(dynamic) ==
    IF dynamic = <<>> THEN <<>>
    ELSE LET n == Len(dynamic)
         IN  DictSet(ById(SubSeq(dynamic, 1, n - 1)), dynamic[n].field_id, dynamic[n])

(* WritablePersonioResource.__init__:                                         *)
(* self.dynamic = {d.field_id: d for d in dynamic} if dynamic else {}         *)
DynamicDict(kwargs) ==
    IF "dynamic" \in DOMAIN kwargs /\ ~IsNone(kwargs["dynamic"])
       /\ kwargs["dynamic"].v # <<>>
    THEN Dict(ById(kwargs["dynamic"].v))
    ELSE Dict(<<>>)

(* the call cls(kwargs...): the instance, or TypeError for a missing or unexpected argument *)
New(c, kwargs) ==
    LET p == InitParams(c)
        given == DOMAIN kwargs
        arg(name) == IF name \in given THEN kwargs[name] ELSE NoneV
        own == [name \in StoredParams(c) |-> arg(name)]
        writable == ("_client" :> arg("client")) @@ ("dynamic" :> DynamicDict(kwargs))
    IN  IF ~(p.required \subseteq given)
           \/ (~p.varkw /\ ~(given \subseteq (p.required \cup p.optional)))
        THEN Raised("TypeError", <<>>)
        ELSE Returned(Instance(c, IF c \in WritableClasses THEN writable @@ own ELSE own))

-----------------------------------------------------------------------------
(* Python string and number primitives *)

s_label == <<"l", "a", "b", "e", "l">>

s_value == <<"v", "a", "l", "u", "e">>

DigitChars == <<"0", "1", "2", "3", "4", "5", "6", "7", "8", "9">>

IsDigit(ch) == \E i \in 1..Len(DigitChars) : DigitChars[i] = ch

DigitValue(ch) == (CHOOSE i \in 1..Len(DigitChars) : DigitChars[i] = ch) - 1

AllDigits(s) == \A i \in 1..Len(s) : IsDigit(s[i])

RECURSIVE DecimalValue(_)
DecimalValue(s) ==
    IF s = <<>> THEN 0
    ELSE DecimalValue(SubSeq(s, 1, Len(s) - 1)) * 10 + DigitValue(s[Len(s)])

(* int(s) and float(s) of a str: the number a decimal digit string denotes,  *)
(* ValueError for any other string the model draws                           *)
ParseNumber(s) ==
    IF s # <<>> /\ AllDigits(s) THEN Returned(Num(DecimalValue(s)))
    ELSE Raised("ValueError", <<>>)

(* str(n) of a natural number *)
RECURSIVE DecimalString(_)
DecimalString(n) ==
    IF n < 10 THEN <<DigitChars[n + 1]>>
    ELSE DecimalString(n \div 10) \o <<DigitChars[(n % 10) + 1]>>

(* str(value) *)
PyStr(value) ==
    CASE value.t = "str" -> value
      [] value.t = "num" -> Str(DecimalString(value.v))
      [] value.t = "None" -> Str(<<"N", "o", "n", "e">>)

(* s.startswith(prefix) *)
StartsWith(s, prefix) == Len(s) >= Len(prefix) /\ SubSeq(s, 1, Len(prefix)) = prefix

(* s.split(sep, maxsplit=1) of a string that contains sep *)
SplitOnce(s, sep) ==
    LET i == CHOOSE k \in 1..Len(s) : s[k] = sep /\ \A j \in 1..(k - 1) : s[j] # sep
    IN  <<SubSeq(s, 1, i - 1), SubSeq(s, i + 1, Len(s))>>

(* x[k] for a str key k: the item of a dict, KeyError when it has none,      *)
(* TypeError when x is no dict                                               *)
Subscript(x, k) ==
    IF x.t = "dict"
    THEN IF k \in DictKeys(x.v) THEN Returned(DictGet(x.v, k)) ELSE Raised("KeyError", <<k>>)
    ELSE Raised("TypeError", <<>>)

(* a datetime: its date, time of day and UTC offset as isoformat() prints them *)
DateTime(date, time, offset) ==
    [t |-> "datetime", v |-> [date |-> date, time |-> time, offset |-> offset]]

IsDateText(s) ==
    /\ Len(s) = 10
    /\ \A i \in {1, 2, 3, 4, 6, 7, 9, 10} : IsDigit(s[i])
    /\ s[5] = "-"
    /\ s[8] = "-"

IsTimeText(s) ==
    /\ Len(s) = 8
    /\ \A i \in {1, 2, 4, 5, 7, 8} : IsDigit(s[i])
    /\ s[3] = ":"
    /\ s[6] = ":"

IsOffsetText(s) ==
    \/ s = <<>>
    \/ /\ Len(s) = 6
       /\ s[1] \in {"+", "-"}
       /\ \A i \in {2, 3, 5, 6} : IsDigit(s[i])
       /\ s[4] = ":"

(* a fromisoformat that reads the date and drops the time of day *)
FromIsoFormatDateOnly(value) ==
    IF value.t # "str" THEN Raised("TypeError", <<>>)
    ELSE IF Len(value.v) >= 10 /\ IsDateText(SubSeq(value.v, 1, 10))
         THEN Returned(DateTime(SubSeq(value.v, 1, 10),
                                <<"0", "0", ":", "0", "0", ":", "0", "0">>, <<>>))
         ELSE Raised("ValueError", <<>>)

(* datetime.fromisoformat(value) for the two shapes the model draws,         *)
(* YYYY-MM-DD and YYYY-MM-DD?HH:MM:SS[+HH:MM]; TypeError for a non-str,      *)
(* ValueError for any other string                                           *)
FromIsoFormat(value) ==
    IF value.t # "str" THEN Raised("TypeError", <<>>)
    ELSE LET s == value.v
         IN  IF IsDateText(s)
             THEN Returned(DateTime(s, <<"0", "0", ":", "0", "0", ":", "0", "0">>, <<>>))
             ELSE IF /\ Len(s) >= 19
                     /\ IsDateText(SubSeq(s, 1, 10))
                     /\ IsTimeText(SubSeq(s, 12, 19))
                     /\ IsOffsetText(SubSeq(s, 20, Len(s)))
                  THEN Returned(DateTime(SubSeq(s, 1, 10), SubSeq(s, 12, 19),
                                         SubSeq(s, 20, Len(s))))
                  ELSE Raised("ValueError", <<>>)

(* value.isoformat() *)
IsoFormat(value) == value.v.date \o <<"T">> \o value.v.time \o value.v.offset

-----------------------------------------------------------------------------
(* DynamicAttr *)

(* a from_dict that parses the key without testing its prefix *)
DynamicAttrFromDictUnchecked(key, d) ==
    IF \E k \in 1..Len(key) : key[k] = "_"
    THEN LET field_id == ParseNumber(SplitOnce(key, "_")[2])
             label == Subscript(d, s_label)
             value == Subscript(d, s_value)
         IN  IF field_id.status = "raised" THEN field_id
             ELSE IF label.status = "raised" THEN label
             ELSE IF value.status = "raised" THEN value
             ELSE Returned(DynamicAttr(field_id.value.v, label.value, value.value))
    ELSE Raised("ValueError", <<key>>)

(* DynamicAttr.from_dict(key, d) *)
DynamicAttrFromDict(key, d) ==
    IF StartsWith(key, s_dynamic_)
    THEN LET field_id == ParseNumber(SplitOnce(key, "_")[2])
             label == Subscript(d, s_label)
             value == Subscript(d, s_value)
         IN  IF field_id.status = "raised" THEN field_id
             ELSE IF label.status = "raised" THEN label
             ELSE IF value.status = "raised" THEN value
             ELSE Returned(DynamicAttr(field_id.value.v, label.value, value.value))
    ELSE Raised("ValueError", <<key>>)

(* DynamicAttr.to_dict(self) *)
DynamicAttrToDict(dyn) == Dict(<< <<s_label, dyn.label>>, <<s_value, dyn.value>> >>)

(* the key f'dynamic_{d.field_id}' *)
DynamicKey(dyn) == s_dynamic_ \o DecimalString(dyn.field_id)

-----------------------------------------------------------------------------
(* The class-level caches and the log, as one heap threaded through a call *)

Heap == [fm |-> field_mapping, lm |-> label_mapping, nt |-> namedtuple,
         ul |-> unique_logs, lg |-> logged]

Min(S) == CHOOSE x \in S : \A y \in S : x <= y

(* attribute lookup of a name-mangled class attribute: the first class of    *)
(* the MRO on which it is set to something other than None, if any           *)
Holder(cache, c) ==
    LET set == {i \in 1..Len(MRO(c)) : ~IsNone(cache[MRO(c)[i]])}
    IN  IF set = {} THEN "nowhere" ELSE MRO(c)[Min(set)]

(* {fm.api_field: fm for fm in cls._field_mapping_list} *)
RECURSIVE ByApiField(_)
ByApiField(list) ==
    IF list = <<>> THEN <<>>
    ELSE LET n == Len(list)
         IN  DictSet(ByApiField(SubSeq(list, 1, n - 1)), list[n].api_field, list[n])

(* cls._field_mapping(): builds the dict on cls when the lookup finds None;  *)
(* the heap afterwards                                                       *)
EnsureFieldMapping(H, c) ==
    IF Holder(H.fm, c) = "nowhere"
    THEN [H EXCEPT !.fm[c] = Dict(ByApiField(FieldMappingList(c)))]
    ELSE H

(* cls._label_mapping(): sets {} on cls when the lookup finds None *)
EnsureLabelMapping(H, c) ==
    IF Holder(H.lm, c) = "nowhere"
    THEN [H EXCEPT !.lm[c] = [t |-> "labels", m |-> <<>>]]
    ELSE H

(* cls._namedtuple() *)
EnsureNamedTuple(H, c) ==
    IF Holder(H.nt, c) = "nowhere"
    THEN [H EXCEPT !.nt[c] =
             [t |-> "namedtuple", name |-> <<c, "Tuple">>,
              fields |-> [i \in 1..Len(FieldMappingList(c)) |->
                              FieldMappingList(c)[i].class_field]
                         \o <<"dynamic", "class_name">>]]
    ELSE H

(* label_mapping[key] = label, on the dict the lookup from cls finds; the    *)
(* dict is only read by key, so it is kept as a function                     *)
SetLabel(H, c, key, label) ==
    LET holder == Holder(H.lm, c)
        m == H.lm[holder].m
    IN  [H EXCEPT !.lm[holder].m =
            [k \in DOMAIN m \cup {key} |-> IF k = key THEN label ELSE m[k]]]

(* label_mapping.get(key) *)
GetLabel(H, c, key) ==
    LET m == H.lm[Holder(H.lm, c)].m
    IN  IF key \in DOMAIN m THEN m[key] ELSE NoneV

(* the message f"unexpected field '{key}' in class {cls.__class__.__name__}": *)
(* cls is a class, so cls.__class__ is its metaclass, type                    *)
UnexpectedField(c, key) == [text |-> "unexpected field", key |-> key, class |-> "type"]

(* log_once that logs without consulting _unique_logs *)
LogEveryTime(H, message) ==
    [H EXCEPT !.lg = Append(H.lg, message), !.ul = H.ul \cup {message}]

(* log_once(level, message) *)
LogOnce(H, message) ==
    IF message \notin H.ul
    THEN [H EXCEPT !.lg = Append(H.lg, message), !.ul = H.ul \cup {message}]
    ELSE H

-----------------------------------------------------------------------------
(* PersonioResource: decoding *)

RECURSIVE Deserialize(_, _, _), DeserializeEach(_, _, _), MapItems(_, _, _, _, _),
          MapFields(_, _, _), FromDict(_, _, _, _)

(* mapping.deserialize(value): the value or the error, and the heap after    *)
(*   FieldMapping         self.field_type(value), field_type being str       *)
(*   NumericFieldMapping  self.field_type(value) if isinstance(value, str)   *)
(*                        else value                                         *)
(*   DateFieldMapping     datetime.fromisoformat(value)                      *)
(*   ObjectFieldMapping   self.field_type.from_dict(value)                   *)
(*   ListFieldMapping     [item_mapping.deserialize(item) for item in values] *)
Deserialize(m, value, H) ==
    CASE m.kind = "plain" -> [result |-> Returned(PyStr(value)), H |-> H]
      [] m.kind = "numeric" ->
             [result |-> IF value.t = "str" THEN ParseNumber(value.v) ELSE Returned(value),
              H |-> H]
      [] m.kind = "date" -> [result |-> FromIsoFormat(value), H |-> H]
      [] m.kind = "object" -> FromDict(m.field_type, value, NoneV, H)
      [] m.kind = "list" ->
             IF value.t # "list" THEN [result |-> Raised("TypeError", <<>>), H |-> H]
             ELSE DeserializeEach(m.item_mapping, value.v, H)

(* the list comprehension of ListFieldMapping.deserialize, item by item *)
DeserializeEach(m, values, H) ==
    IF values = <<>> THEN [result |-> Returned(List(<<>>)), H |-> H]
    ELSE LET n == Len(values)
             front == DeserializeEach(m, SubSeq(values, 1, n - 1), H)
         IN  IF front.result.status = "raised" THEN front
             ELSE LET item == Deserialize(m, values[n], front.H)
                  IN  IF item.result.status = "raised" THEN item
                      ELSE [result |-> Returned(List(Append(front.result.value.v,
                                                            item.result.value))),
                            H |-> item.H]

(* the loop of _map_fields from item i on: kwargs is a function from         *)
(* parameter name to value, dynamic the list of DynamicAttr so far           *)
MapItems(c, items, i, acc, H) ==
    IF i > Len(items)
    THEN [result |-> Returned(IF acc.dynamic # <<>>
                              THEN ("dynamic" :> List(acc.dynamic)) @@ acc.kwargs
                              ELSE acc.kwargs),
          H |-> H]
    ELSE LET key == items[i][1]
             data == items[i][2]
             label == Subscript(data, s_label)
         IN  IF label.status = "raised" THEN [result |-> label, H |-> H]
             ELSE LET H1 == SetLabel(H, c, key, label.value)
                      field_mapping_dict == H1.fm[Holder(H1.fm, c)].v
                  IN  IF key \in DictKeys(field_mapping_dict)
                      THEN LET fm == DictGet(field_mapping_dict, key)
                               wire == Subscript(data, s_value)
                           IN  IF wire.status = "raised" THEN [result |-> wire, H |-> H1]
                               ELSE LET r == Deserialize(fm, wire.value, H1)
                                    IN  IF r.result.status = "raised" THEN r
                                        ELSE MapItems(c, items, i + 1,
                                                 [acc EXCEPT !.kwargs =
                                                      (fm.class_field :> r.result.value) @@ @],
                                                 r.H)
                      ELSE IF StartsWith(key, s_dynamic_)
                      THEN LET dyn == DynamicAttrFromDict(key, data)
                           IN  IF dyn.status = "raised" THEN [result |-> dyn, H |-> H1]
                               ELSE MapItems(c, items, i + 1,
                                        [acc EXCEPT !.dynamic = Append(@, dyn.value)], H1)
                      ELSE MapItems(c, items, i + 1, acc, LogOnce(H1, UnexpectedField(c, key)))

(* cls._map_fields(d) *)
MapFields(c, d, H) ==
    IF d.t # "dict" THEN [result |-> Raised("AttributeError", <<>>), H |-> H]
    ELSE MapItems(c, d.v, 1, [kwargs |-> <<>>, dynamic |-> <<>>],
                  EnsureLabelMapping(EnsureFieldMapping(H, c), c))

(* cls.from_dict(d) of PersonioResource, cls.from_dict(d, client) of         *)
(* WritablePersonioResource                                                  *)
FromDict(c, d, client, H) ==
    LET k == MapFields(c, d, H)
    IN  IF k.result.status = "raised" THEN k
        ELSE [result |-> New(c, IF c \in WritableClasses
                                THEN ("client" :> client) @@ k.result.value
                                ELSE k.result.value),
              H |-> k.H]

-----------------------------------------------------------------------------
(* PersonioResource: encoding, projection, equality, hash *)

Wrapped(label, value) == Dict(<< <<s_label, label>>, <<s_value, value>> >>)

(* the loop of PersonioResource.to_dict over the first n mappings *)
RECURSIVE MappedItems(_, _, _)
MappedItems(self, n, H) ==
    IF n = 0 THEN <<>>
    ELSE LET mapping == FieldMappingList(self.cls)[n]
             value == self.attrs[mapping.class_field]
             front == MappedItems(self, n - 1, H)
         IN  IF ~IsNone(value)
             THEN DictSet(front, mapping.api_field,
                          Wrapped(GetLabel(H, self.cls, mapping.api_field), value))
             ELSE front

(* the loop of WritablePersonioResource.to_dict over the first n dynamic     *)
(* attributes                                                                *)
RECURSIVE WithDynamicItems(_, _, _)
WithDynamicItems(items, dynamic, n) ==
    IF n = 0 THEN items
    ELSE DictSet(WithDynamicItems(items, dynamic, n - 1),
                 DynamicKey(dynamic[n][2]), DynamicAttrToDict(dynamic[n][2]))

(* self.to_dict(): the dict, and the heap after self._label_mapping() *)
ToDict(self, H) ==
    LET H1 == EnsureLabelMapping(H, self.cls)
        mapped == MappedItems(self, Len(FieldMappingList(self.cls)), H1)
    IN  [result |-> Returned(Dict(IF self.cls \in WritableClasses
                                  THEN WithDynamicItems(mapped, self.attrs["dynamic"].v,
                                                        Len(self.attrs["dynamic"].v))
                                  ELSE mapped)),
         H |-> H1]

(* self.to_tuple(): the values are read before self._namedtuple() is called; *)
(* an instance of a class that is not writable has no attribute dynamic      *)
ToTuple(self, H) ==
    IF "dynamic" \notin DOMAIN self.attrs
    THEN [result |-> Raised("AttributeError", <<"dynamic">>), H |-> H]
    ELSE LET list == FieldMappingList(self.cls)
         IN  [result |-> Returned([t |-> "tuple",
                                   v |-> [i \in 1..Len(list) |->
                                              self.attrs[list[i].class_field]]
                                         \o <<self.attrs["dynamic"],
                                              Str(<<"<class '", self.cls, "'>">>)>>]),
              H |-> EnsureNamedTuple(H, self.cls)]

(* a == b of Python values: sequences by position, dicts by key *)
RECURSIVE PyEq(_, _)
PyEq(a, b) ==
    IF a.t # b.t THEN FALSE
    ELSE CASE a.t \in {"list", "tuple"} ->
                  /\ Len(a.v) = Len(b.v)
                  /\ \A i \in 1..Len(a.v) : PyEq(a.v[i], b.v[i])
           [] a.t = "dict" ->
                  /\ DictKeys(a.v) = DictKeys(b.v)
                  /\ \A k \in DictKeys(a.v) : PyEq(DictGet(a.v, k), DictGet(b.v, k))
           [] a.t \in {"None", "str", "num", "datetime", "DynamicAttr"} -> a = b

(* self == other *)
Eq(self, other, H) ==
    IF other.t # "obj" THEN [result |-> Returned(FALSE), H |-> H]
    ELSE LET a == ToTuple(self, H)
         IN  IF a.result.status = "raised" THEN a
             ELSE LET b == ToTuple(other, a.H)
                  IN  IF b.result.status = "raised" THEN b
                      ELSE [result |-> Returned(PyEq(a.result.value, b.result.value)),
                            H |-> b.H]

(* the items of a dict with int keys, by ascending key *)
RECURSIVE SortedItems(_)
SortedItems(items) ==
    IF items = <<>> THEN <<>>
    ELSE LET i == CHOOSE k \in 1..Len(items) :
                      \A j \in 1..Len(items) : items[k][1] <= items[j][1]
         IN  <<items[i]>> \o SortedItems([j \in 1..(Len(items) - 1) |->
                                              IF j < i THEN items[j] ELSE items[j + 1]])

(* whether json.dumps can encode the value: datetime and resource objects    *)
(* make it raise TypeError                                                   *)
RECURSIVE JsonEncodable(_)
JsonEncodable(x) ==
    CASE x.t \in {"None", "str", "num", "DynamicAttr"} -> TRUE
      [] x.t \in {"list", "tuple"} -> \A i \in 1..Len(x.v) : JsonEncodable(x.v[i])
      [] x.t = "dict" -> \A i \in 1..Len(x.v) : JsonEncodable(x.v[i][2])
      [] OTHER -> FALSE

(* the text json.dumps(x, sort_keys=...) writes, as its syntax tree: a tuple *)
(* (a namedtuple too) is written as an array, an int key as a string         *)
RECURSIVE JsonText(_, _)
JsonText(x, sort_keys) ==
    CASE x.t = "None" -> [j |-> "null"]
      [] x.t = "str" -> [j |-> "string", v |-> x.v]
      [] x.t = "num" -> [j |-> "number", v |-> x.v]
      [] x.t = "DynamicAttr" ->
             [j |-> "array",
              v |-> <<[j |-> "number", v |-> x.field_id], JsonText(x.label, sort_keys),
                      JsonText(x.value, sort_keys)>>]
      [] x.t \in {"list", "tuple"} ->
             [j |-> "array", v |-> [i \in 1..Len(x.v) |-> JsonText(x.v[i], sort_keys)]]
      [] x.t = "dict" ->
             LET items == IF sort_keys THEN SortedItems(x.v) ELSE x.v
             IN  [j |-> "object",
                  v |-> [i \in 1..Len(items) |->
                            <<DecimalString(items[i][1]), JsonText(items[i][2], sort_keys)>>]]

(* json.dumps(self.to_tuple()) without sort_keys *)
JsonDumpsUnsorted(x) ==
    IF JsonEncodable(x) THEN Returned(JsonText(x, FALSE)) ELSE Raised("TypeError", <<>>)

(* json.dumps(self.to_tuple(), sort_keys=True) *)
JsonDumps(x) ==
    IF JsonEncodable(x) THEN Returned(JsonText(x, TRUE)) ELSE Raised("TypeError", <<>>)

(* hash(self): hash() of the text; equal texts hash equal, and the model     *)
(* takes distinct texts to hash differently                                  *)
Hash(self, H) ==
    LET a == ToTuple(self, H)
    IN  IF a.result.status = "raised" THEN a
        ELSE [result |-> JsonDumps(a.result.value), H |-> a.H]

-----------------------------------------------------------------------------
(* The calls of the codec as actions *)

(* the threads of the embedding application that call from_dict *)
Threads == {1, 2}

(* a thread that has not called from_dict yet *)
Idle == [pc |-> "idle"]

SetHeap(H) ==
    /\ field_mapping' = H.fm
    /\ label_mapping' = H.lm
    /\ namedtuple' = H.nt
    /\ unique_logs' = H.ul
    /\ logged' = H.lg

(* the label each key of a payload carries, where the entry has one *)
LabelsOf(d) ==
    LET labelled == {i \in 1..Len(d.v) : Subscript(d.v[i][2], s_label).status = "returned"}
    IN  [k \in {d.v[i][1] : i \in labelled} |->
            Subscript(DictGet(d.v, k), s_label).value]

(* instance = cls.from_dict(d) or cls.from_dict(d, client), kept in a slot *)
FromDictCall(slot, c, d, client) ==
    /\ LET r == FromDict(c, d, client, Heap)
       IN  /\ SetHeap(r.H)
           /\ last' = [op |-> "from_dict", slot |-> slot, cls |-> c, d |-> d,
                       client |-> client, result |-> r.result]
           /\ IF r.result.status = "returned"
              THEN /\ objs' = [objs EXCEPT ![slot] = r.result.value]
                   /\ source' = [source EXCEPT ![slot] = [cls |-> c, d |-> d, client |-> client]]
              ELSE UNCHANGED <<objs, source>>
    /\ seen' = [seen EXCEPT ![c] = LabelsOf(d) @@ @]
    /\ calls' = calls + 1
    /\ UNCHANGED <<authenticated, life, threads>>

(* objs[slot].to_dict() *)
ToDictCall(slot) ==
    /\ ~IsNone(objs[slot])
    /\ LET r == ToDict(objs[slot], Heap)
       IN  /\ SetHeap(r.H)
           /\ last' = [op |-> "to_dict", slot |-> slot, cls |-> objs[slot].cls,
                       result |-> r.result]
    /\ calls' = calls + 1
    /\ UNCHANGED <<objs, authenticated, life, source, seen, threads>>

(* objs[slot] == objs[other] *)
EqCall(slot, other) ==
    /\ ~IsNone(objs[slot])
    /\ ~IsNone(objs[other])
    /\ LET r == Eq(objs[slot], objs[other], Heap)
       IN  /\ SetHeap(r.H)
           /\ last' = [op |-> "eq", slot |-> slot, other |-> other, cls |-> objs[slot].cls,
                       result |-> r.result]
    /\ calls' = calls + 1
    /\ UNCHANGED <<objs, authenticated, life, source, seen, threads>>

(* hash(objs[slot]) *)
HashCall(slot) ==
    /\ ~IsNone(objs[slot])
    /\ LET r == Hash(objs[slot], Heap)
       IN  /\ SetHeap(r.H)
           /\ last' = [op |-> "hash", slot |-> slot, cls |-> objs[slot].cls,
                       result |-> r.result]
    /\ calls' = calls + 1
    /\ UNCHANGED <<objs, authenticated, life, source, seen, threads>>

-----------------------------------------------------------------------------
(* Payloads *)

Item(key, label, value) == <<key, Wrapped(label, value)>>

(* all sequences over S of length at most n *)
SeqsUpTo(S, n) == UNION {[1..k -> S] : k \in 0..n}

DistinctKeys(items) ==
    \A i, j \in 1..Len(items) : i # j => items[i][1] # items[j][1]

(* what the decoding specification draws payload entries from: a known field *)
(* under two labels, a custom field, and a key no mapping knows              *)
DecodeItems == {
    Item(a_first_name, Str(s_First), Str(s_Ada)),
    Item(a_first_name, Str(s_Vorname), Str(s_Ada)),
    Item(s_dynamic_3, Str(s_Shirt), Str(s_M)),
    Item(s_foo, NoneV, Str(s_x)) }

DecodePayloads ==
    {Dict(items) : items \in {s \in SeqsUpTo(DecodeItems, MaxPayload) : DistinctKeys(s)}}

DecodeClasses == {"WritablePersonioResource", "Employee", "Attendance"}

Empty ==
    /\ field_mapping = NoCaches
    /\ label_mapping = NoCaches
    /\ namedtuple = NoCaches
    /\ unique_logs = {}
    /\ logged = <<>>
    /\ objs = [s \in Slots |-> NoneV]
    /\ authenticated = [c \in Clients |-> FALSE]
    /\ last = NoLast
    /\ calls = 0
    /\ life = [s \in Slots |-> "Detached"]
    /\ source = [s \in Slots |-> NoneV]
    /\ seen = [c \in Classes |-> <<>>]
    /\ threads = [t \in Threads |-> Idle]

(* Decoding specification: any sequence of from_dict calls on the writable   *)
(* base class and two of its subclasses, and to_dict of the result           *)
NextDecode ==
    \/ \E c \in DecodeClasses, d \in DecodePayloads :
           calls < MaxCalls /\ FromDictCall(1, c, d, NoneV)
    \/ calls < MaxCalls /\ ToDictCall(1)

SpecDecode == Empty /\ [][NextDecode]_vars

(* Label specification: the decoding calls again, one call longer, so that a *)
(* base class and two subclasses each decode once                            *)
NextLabels ==
    /\ calls < MaxLabelCalls
    /\ \E c \in DecodeClasses, d \in DecodePayloads : FromDictCall(1, c, d, NoneV)

SpecLabels == Empty /\ [][NextLabels]_vars

(* what the codec specification draws Employee payloads from: the known      *)
(* fields in the order of the mapping list, one of each mapping kind (the id *)
(* as a string and as a number), then the custom fields in any order         *)
s_type == <<"t", "y", "p", "e">>

s_attributes == <<"a", "t", "t", "r", "i", "b", "u", "t", "e", "s">>

OfficeValue ==
    Dict(<< <<s_type, Str(s_Office)>>,
            <<s_attributes, Dict(<< <<s_name, Str(s_Berlin)>> >>)>> >>)

KnownItems == <<
    Item(a_id, Str(s_ID), Str(s_7)),
    Item(a_id, Str(s_ID), Num(7)),
    Item(a_first_name, Str(s_First), Str(s_Ada)),
    Item(a_hire_date, Str(s_Hired), Str(s_timestamp)),
    Item(a_office, Str(s_Office), OfficeValue),
    Item(a_cost_centers, Str(s_Costs), List(<<>>)) >>

CustomItems == {
    Item(s_dynamic_3, Str(s_Shirt), Str(s_M)),
    Item(s_dynamic_7, Str(s_Size), Str(s_L)) }

(* the ways to pick at most MaxPayload of the known items, in their order    *)
(* and no key twice                                                          *)
KnownPicks(known) ==
    {p \in SeqsUpTo(1..Len(known), MaxPayload) :
        /\ \A i \in 1..(Len(p) - 1) : p[i] < p[i + 1]
        /\ \A i, j \in 1..Len(p) : i # j => known[p[i]][1] # known[p[j]][1]}

(* any of the custom items in any order *)
CustomParts == {s \in SeqsUpTo(CustomItems, Cardinality(CustomItems)) : DistinctKeys(s)}

(* the payload of the picked known items followed by the custom items *)
Payload(known, pick, custom) == Dict([i \in 1..Len(pick) |-> known[pick[i]]] \o custom)

(* Codec specification: one Employee instance decoded from a payload, then   *)
(* encoded                                                                   *)
NextCodec ==
    \/ \E pick \in KnownPicks(KnownItems), custom \in CustomParts :
           /\ calls < MaxCalls
           /\ IsNone(objs[1])
           /\ FromDictCall(1, "Employee", Payload(KnownItems, pick, custom), NoneV)
    \/ calls < MaxCalls /\ ToDictCall(1)

SpecCodec == Empty /\ [][NextCodec]_vars

(* Comparison specification: two Employee instances, each decoded once, the  *)
(* second with or without a client, and up to MaxCalls comparisons and       *)
(* hashes                                                                    *)
CompareItems == SubSeq(KnownItems, 2, 4)

NextCompare ==
    \/ \E pick \in KnownPicks(CompareItems), custom \in CustomParts :
           /\ IsNone(objs[1])
           /\ FromDictCall(1, "Employee", Payload(CompareItems, pick, custom), NoneV)
    \/ \E pick \in KnownPicks(CompareItems), custom \in CustomParts,
          client \in {NoneV, Client(1)} :
           /\ IsNone(objs[2])
           /\ FromDictCall(2, "Employee", Payload(CompareItems, pick, custom), client)
    \/ calls < MaxCalls + 2 /\ EqCall(1, 2)
    \/ \E slot \in Slots : calls < MaxCalls + 2 /\ HashCall(slot)

SpecCompare == Empty /\ [][NextCompare]_vars

-----------------------------------------------------------------------------
(* Lifecycle specification: one writable instance, built by its constructor  *)
(* with or without a client, and any sequence of create/update/delete calls  *)



InitLifecycle ==
    /\ field_mapping = NoCaches
    /\ label_mapping = NoCaches
    /\ namedtuple = NoCaches
    /\ unique_logs = {}
    /\ logged = <<>>
    /\ \E c \in WritableClasses, stored \in ClientArgs :
           objs = [s \in Slots |-> IF s = 1 THEN New(c, "client" :> stored).value ELSE NoneV]
    /\ authenticated \in [Clients -> BOOLEAN]
    /\ last = NoLast
    /\ calls = 0
    /\ life = [s \in Slots |-> "Detached"]
    /\ source = [s \in Slots |-> NoneV]
    /\ seen = [c \in Classes |-> <<>>]
    /\ threads = [t \in Threads |-> Idle]

NextLifecycle ==
    \/ \E slot \in Slots, client \in ClientArgs, ok \in BOOLEAN :
           calls < MaxCalls /\ Create(slot, client, ok)
    \/ \E slot \in Slots, client \in ClientArgs, ok \in BOOLEAN :
           calls < MaxCalls /\ Update(slot, client, ok)
    \/ \E slot \in Slots, client \in ClientArgs, ok \in BOOLEAN :
           calls < MaxCalls /\ Delete(slot, client, ok)

SpecLifecycle == InitLifecycle /\ [][NextLifecycle]_vars

-----------------------------------------------------------------------------
(* Claims about the lifecycle verbs *)

IsVerbCall == last.op \in Verbs

(* the verbs switched off in the class bodies: Employee._can_delete = False, *)
(* Absence._can_update = False                                              *)
LastVerbDisabled ==
    \/ last.cls = "Employee" /\ last.op = "delete"
    \/ last.cls = "Absence" /\ last.op = "update"

EventsOf(kind) == {i \in 1..Len(last.events) : last.events[i].ev = kind}

(* C1: a verb whose capability flag is disabled fails with                   *)
(* UnsupportedMethodError(verb, class), whatever the client argument and the *)
(* stored client, and before failing it neither resolves a client, nor reads *)
(* or triggers authentication, nor runs the hook.                            *)
C1_DisabledVerbFails ==
    (IsVerbCall /\ LastVerbDisabled) =>
        /\ last.result = Raised("UnsupportedMethodError", <<last.op, last.cls>>)
        /\ last.events = <<>>

C1_Witness ==
    /\ IsVerbCall
    /\ last.cls = "Employee"
    /\ last.op = "delete"
    /\ ~IsNone(last.client)
    /\ ~IsNone(last.stored)
    /\ ~authenticated[last.client.v]

(* C2: with the flag enabled and a client resolved, a verb whose hook the    *)
(* concrete type does not supply fails with UnsupportedMethodError(verb,     *)
(* class); it never returns normally.                                        *)
C2_MissingHookFails ==
    (/\ IsVerbCall
     /\ ~LastVerbDisabled
     /\ last.cls = "WritablePersonioResource" \/ last.op \notin DOMAIN OwnHooks(last.cls)
     /\ EventsOf("hook") # {})
        => last.result = Raised("UnsupportedMethodError", <<last.op, last.cls>>)

(* C3 as claimed: create returns normally only from Detached (to Persisted), *)
(* update only from Persisted, delete only from Persisted (to Deleted), and  *)
(* nothing returns normally from Deleted.                                    *)
C3_LifecycleStateMachine ==
    [][(/\ calls' = calls + 1
        /\ last'.op \in Verbs
        /\ last'.result.status = "returned")
          => LET before == life[last'.slot]
                 after == life'[last'.slot]
             IN  /\ last'.op = "create" => (before = "Detached" /\ after = "Persisted")
                 /\ last'.op = "update" => (before = "Persisted" /\ after = "Persisted")
                 /\ last'.op = "delete" => (before = "Persisted" /\ after = "Deleted")]_vars

(* C3 as amended: the instance keeps no lifecycle state.  No verb changes    *)
(* the instance, and a verb that returned normally returns normally again    *)
(* when it is repeated with the same client argument, unless authenticate()  *)
(* fails: delete succeeds after delete, update and delete need no create.    *)
C3_VerbsKeepNoLifecycle ==
    [][(calls' = calls + 1 /\ last'.op \in Verbs)
          => /\ objs' = objs
             /\ (/\ last.op = last'.op
                 /\ last.slot = last'.slot
                 /\ last.client = last'.client
                 /\ last.result.status = "returned"
                 /\ ~(last'.result.status = "raised"
                      /\ last'.result.type = "AuthenticationError"))
                    => last'.result.status = "returned"]_vars

C3_Witness ==
    /\ IsVerbCall
    /\ life[last.slot] = "Deleted"
    /\ last.op = "delete"
    /\ last.result.status = "returned"
    /\ calls = MaxCalls

(* C4: for an enabled verb the client used is the argument when one is       *)
(* given, else the stored one; with neither the call fails with              *)
(* PersonioError, and then nothing is authenticated and no hook runs.        *)
C4_ClientResolution ==
    (IsVerbCall /\ ~LastVerbDisabled) =>
        LET expected == IF ~IsNone(last.client) THEN last.client ELSE last.stored
        IN  IF IsNone(expected)
            THEN /\ last.result = Raised("PersonioError", <<>>)
                 /\ EventsOf("read_authenticated") = {}
                 /\ EventsOf("authenticate") = {}
                 /\ EventsOf("hook") = {}
            ELSE /\ EventsOf("read_authenticated") # {}
                 /\ \A i \in 1..Len(last.events) :
                        last.events[i].ev # "check_client"
                            => last.events[i].client = expected.v
                 /\ ~(last.result.status = "raised" /\ last.result.type = "PersonioError")

C4_Witness ==
    /\ IsVerbCall
    /\ ~LastVerbDisabled
    /\ ~IsNone(last.client)
    /\ ~IsNone(last.stored)
    /\ last.client # last.stored
    /\ EventsOf("hook") # {}

(* C5: in a call that reaches the hook, authenticate() is called exactly     *)
(* when the client read as not authenticated, and before the hook; it is     *)
(* never called for a client that read as authenticated; when it fails the   *)
(* failure reaches the caller and the hook is not run.                       *)
C5_AuthenticateWhenNeeded ==
    IsVerbCall =>
        LET reads == EventsOf("read_authenticated")
            auths == EventsOf("authenticate")
            hooks == EventsOf("hook")
        IN  /\ \A r \in reads :
                   /\ last.events[r].value => auths = {}
                   /\ (~last.events[r].value /\ hooks # {}) => Cardinality(auths) = 1
            /\ \A a \in auths : \A h \in hooks : a < h
            /\ Cardinality(auths) <= 1
            /\ (auths # {} /\ hooks = {})
                   => last.result = Raised("AuthenticationError", <<>>)
            /\ (last.result.status = "raised" /\ last.result.type = "AuthenticationError")
                   => hooks = {}

C5_Witness ==
    /\ IsVerbCall
    /\ EventsOf("authenticate") # {}
    /\ EventsOf("hook") # {}

-----------------------------------------------------------------------------
(* Claims about decoding *)

ApiFields(c) == {FieldMappingList(c)[i].api_field : i \in 1..Len(FieldMappingList(c))}

(* a key that is neither an API field name of the class nor a dynamic_ key *)
Unrecognized(c, key) == key \notin ApiFields(c) /\ ~StartsWith(key, s_dynamic_)

(* the payload without its unrecognized entries *)
Recognized(c, d) == Dict(SelectSeq(d.v, LAMBDA item : ~Unrecognized(c, item[1])))

WarningsFor(key) == {i \in 1..Len(logged) : logged[i].key = key}

(* C6: a payload with an unrecognized top-level key decodes, to what the     *)
(* payload without that key decodes to; over all decode calls on all types   *)
(* the warning for a key is logged once, by the first decode that has the    *)
(* key, and never again.                                                     *)
C6_UnexpectedKeyDroppedWarnedOnce ==
    /\ \A i \in 1..Len(logged) : WarningsFor(logged[i].key) = {i}
    /\ last.op = "from_dict" =>
           /\ last.result.status = "returned"
           /\ last.result = FromDict(last.cls, Recognized(last.cls, last.d), last.client,
                                     Heap).result
           /\ \A i \in 1..Len(last.d.v) :
                  Unrecognized(last.cls, last.d.v[i][1])
                      => Cardinality(WarningsFor(last.d.v[i][1])) = 1

C6_Witness ==
    /\ last.op = "from_dict"
    /\ s_foo \in DictKeys(last.d.v)
    /\ Len(last.d.v) = 2
    /\ \E c \in Classes \ {last.cls} : s_foo \in DOMAIN seen[c]
    /\ Cardinality(WarningsFor(s_foo)) = 1

(* C7: after any sequence of from_dict calls, the label cache of each class  *)
(* maps every key that occurred in a payload given to that class to the      *)
(* label of the latest such payload, and no call removes a key from a cache. *)
C7_LabelCacheLastWriterWins ==
    [][/\ \A c \in Classes : \A k \in DOMAIN seen'[c] :
              /\ Holder(label_mapping', c) # "nowhere"
              /\ k \in DOMAIN label_mapping'[Holder(label_mapping', c)].m
              /\ label_mapping'[Holder(label_mapping', c)].m[k] = seen'[c][k]
       /\ \A c \in Classes :
              ~IsNone(label_mapping[c])
                  => /\ ~IsNone(label_mapping'[c])
                     /\ DOMAIN label_mapping[c].m \subseteq DOMAIN label_mapping'[c].m]_vars

-----------------------------------------------------------------------------
(* Claims about the round trip and the encoding *)

KnownOnly(c, d) == DictKeys(d.v) \subseteq ApiFields(c)

ValueOf(d, key) == Subscript(DictGet(d.v, key), s_value).value

(* the same (key, value) pairs, whatever the labels and the order *)
SamePairs(d, e) ==
    /\ DictKeys(d.v) = DictKeys(e.v)
    /\ \A k \in DictKeys(d.v) : PyEq(ValueOf(d, k), ValueOf(e, k))

MappingOf(c, key) ==
    FieldMappingList(c)[CHOOSE i \in 1..Len(FieldMappingList(c)) :
                            FieldMappingList(c)[i].api_field = key]

RECURSIVE Serialize(_, _, _)
Serialize(m, value, H) ==
    CASE m.kind = "plain" -> PyStr(value)
      [] m.kind = "numeric" -> value
      [] m.kind = "date" -> Str(SubSeq(IsoFormat(value), 1, 10))
      [] m.kind = "object" -> ToDict(value, H).result.value
      [] m.kind = "list" ->
             List([i \in 1..Len(value.v) |-> Serialize(m.item_mapping, value.v[i], H)])

(* C9: to_dict gives exactly one entry per mapping whose local value is not  *)
(* None, under the API field name, with value mapping.serialize(local value) *)
(* and the cached label or None, and one entry dynamic_<field_id> ->         *)
(* {label, value} per dynamic attribute.                                     *)
C9_ToDictEntries ==
    last.op = "to_dict" =>
        LET self == objs[last.slot]
            list == FieldMappingList(self.cls)
            present == {i \in 1..Len(list) : ~IsNone(self.attrs[list[i].class_field])}
            dynamic == IF "dynamic" \in DOMAIN self.attrs THEN self.attrs["dynamic"].v
                       ELSE <<>>
        IN  /\ last.result.status = "returned"
            /\ DictKeys(last.result.value.v) =
                   {list[i].api_field : i \in present}
                       \cup {DynamicKey(dynamic[i][2]) : i \in 1..Len(dynamic)}
            /\ \A i \in present :
                   DictGet(last.result.value.v, list[i].api_field) =
                       Wrapped(GetLabel(Heap, self.cls, list[i].api_field),
                               Serialize(list[i], self.attrs[list[i].class_field], Heap))
            /\ \A i \in 1..Len(dynamic) :
                   DictGet(last.result.value.v, DynamicKey(dynamic[i][2])) =
                       Wrapped(dynamic[i][2].label, dynamic[i][2].value)

IsCustom(item) == StartsWith(item[1], s_dynamic_)

(* two payloads with the same known entries and the same custom entries,     *)
(* the custom entries in any order                                           *)
SameUpToCustomOrder(d, e) ==
    /\ SelectSeq(d.v, LAMBDA item : ~IsCustom(item)) = SelectSeq(e.v, LAMBDA item : ~IsCustom(item))
    /\ Len(d.v) = Len(e.v)
    /\ \A i \in 1..Len(d.v) : \E j \in 1..Len(e.v) : d.v[i] = e.v[j]

(* the instances in the two slots, decoded as Employee from payloads that    *)
(* differ at most in the order of their custom fields                        *)
DecodedAlike ==
    /\ ~IsNone(objs[1])
    /\ ~IsNone(objs[2])
    /\ source[1].cls = source[2].cls
    /\ SameUpToCustomOrder(source[1].d, source[2].d)

-----------------------------------------------------------------------------
(* from_dict called from two threads.  The interpreter switches threads      *)
(* between bytecodes, so a call is a sequence of steps: each read of a class *)
(* attribute or of _unique_logs, each assignment, each dict store and the    *)
(* logger call is one step, and the steps of the threads interleave.         *)
(*                                                                           *)
(* A label dict is an object: label_mapping[c].id names the thread whose     *)
(* assignment created it and threads[t].ref the dict that _label_mapping()   *)
(* returned to thread t.  A store into a dict that the class attribute no    *)
(* longer refers to cannot be seen through the class and is left out.        *)

(* what the threads decode: payloads with the key no mapping knows *)
ThreadPayloads == {
    Dict(<<Item(s_foo, NoneV, Str(s_x))>>),
    Dict(<<Item(a_first_name, Str(s_First), Str(s_Ada)), Item(s_foo, NoneV, Str(s_x))>>),
    Dict(<<Item(s_foo, NoneV, Str(s_x)), Item(s_dynamic_3, Str(s_Shirt), Str(s_M))>>) }

ThreadClasses == {"Employee", "Attendance"}

(* the thread's state at the head of the loop of _map_fields, or after it *)
AtItem(self, i) ==
    IF i <= Len(self.d.v) THEN [self EXCEPT !.i = i, !.pc = "label"]
    ELSE [self EXCEPT !.pc = "construct"]

(* thread t calls cls.from_dict(d) *)
Begin(t, c, d) ==
    /\ threads[t].pc = "idle"
    /\ threads' = [threads EXCEPT ![t] =
           [pc |-> "fm_test", cls |-> c, d |-> d, i |-> 0, ref |-> 0, kwargs |-> <<>>,
            dynamic |-> <<>>, message |-> NoneV, result |-> NoneV]]
    /\ UNCHANGED <<field_mapping, label_mapping, namedtuple, unique_logs, logged, objs,
                   authenticated, last, calls, life, source, seen>>

(* _field_mapping: if cls.__field_mapping is None *)
FieldMappingTest(t) ==
    /\ threads[t].pc = "fm_test"
    /\ threads' = [threads EXCEPT ![t].pc =
           IF Holder(field_mapping, threads[t].cls) = "nowhere" THEN "fm_set" ELSE "lm_test"]
    /\ UNCHANGED <<field_mapping, label_mapping, namedtuple, unique_logs, logged, objs,
                   authenticated, last, calls, life, source, seen>>

(* _field_mapping: cls.__field_mapping = {...}; every thread builds the same *)
(* dict, so which of them the return reads makes no difference               *)
FieldMappingSet(t) ==
    /\ threads[t].pc = "fm_set"
    /\ field_mapping' = [field_mapping EXCEPT ![threads[t].cls] =
                             Dict(ByApiField(FieldMappingList(threads[t].cls)))]
    /\ threads' = [threads EXCEPT ![t].pc = "lm_test"]
    /\ UNCHANGED <<label_mapping, namedtuple, unique_logs, logged, objs,
                   authenticated, last, calls, life, source, seen>>

(* _label_mapping: if cls.__label_mapping is None *)
LabelMappingTest(t) ==
    /\ threads[t].pc = "lm_test"
    /\ threads' = [threads EXCEPT ![t].pc =
           IF Holder(label_mapping, threads[t].cls) = "nowhere" THEN "lm_set" ELSE "lm_return"]
    /\ UNCHANGED <<field_mapping, label_mapping, namedtuple, unique_logs, logged, objs,
                   authenticated, last, calls, life, source, seen>>

(* _label_mapping: cls.__label_mapping = {}, a new dict *)
LabelMappingSet(t) ==
    /\ threads[t].pc = "lm_set"
    /\ label_mapping' = [label_mapping EXCEPT ![threads[t].cls] =
                             [t |-> "labels", m |-> <<>>, id |-> t]]
    /\ threads' = [threads EXCEPT ![t].pc = "lm_return"]
    /\ UNCHANGED <<field_mapping, namedtuple, unique_logs, logged, objs,
                   authenticated, last, calls, life, source, seen>>

(* _label_mapping: return cls.__label_mapping, read again *)
LabelMappingReturn(t) ==
    /\ threads[t].pc = "lm_return"
    /\ LET self == threads[t]
           returned == label_mapping[Holder(label_mapping, self.cls)]
       IN  threads' = [threads EXCEPT ![t] = AtItem([self EXCEPT !.ref = returned.id], 1)]
    /\ UNCHANGED <<field_mapping, label_mapping, namedtuple, unique_logs, logged, objs,
                   authenticated, last, calls, life, source, seen>>

(* _map_fields: label_mapping[key] = data['label'] *)
RecordLabel(t) ==
    /\ threads[t].pc = "label"
    /\ LET self == threads[t]
           key == self.d.v[self.i][1]
           label == Subscript(self.d.v[self.i][2], s_label)
           holder == Holder(label_mapping, self.cls)
       IN  IF label.status = "raised"
           THEN /\ threads' = [threads EXCEPT ![t].pc = "done", ![t].result = label]
                /\ UNCHANGED label_mapping
           ELSE /\ threads' = [threads EXCEPT ![t].pc = "map"]
                /\ IF label_mapping[holder].id = self.ref
                   THEN label_mapping' = [label_mapping EXCEPT ![holder].m =
                            [k \in DOMAIN @ \cup {key} |->
                                IF k = key THEN label.value ELSE @[k]]]
                   ELSE UNCHANGED label_mapping
    /\ UNCHANGED <<field_mapping, namedtuple, unique_logs, logged, objs,
                   authenticated, last, calls, life, source, seen>>

(* _map_fields: the branches on the key, up to the call of log_once *)
MapItem(t) ==
    /\ threads[t].pc = "map"
    /\ LET self == threads[t]
           key == self.d.v[self.i][1]
           data == self.d.v[self.i][2]
           field_mapping_dict == field_mapping[Holder(field_mapping, self.cls)].v
       IN  threads' = [threads EXCEPT ![t] =
               IF key \in DictKeys(field_mapping_dict)
               THEN LET fm == DictGet(field_mapping_dict, key)
                        wire == Subscript(data, s_value)
                        r == IF wire.status = "raised" THEN wire
                             ELSE Deserialize(fm, wire.value, Heap).result
                    IN  IF r.status = "raised" THEN [self EXCEPT !.pc = "done", !.result = r]
                        ELSE AtItem([self EXCEPT !.kwargs = (fm.class_field :> r.value) @@ @],
                                    self.i + 1)
               ELSE IF StartsWith(key, s_dynamic_)
               THEN LET dyn == DynamicAttrFromDict(key, data)
                    IN  IF dyn.status = "raised"
                        THEN [self EXCEPT !.pc = "done", !.result = dyn]
                        ELSE AtItem([self EXCEPT !.dynamic = Append(@, dyn.value)], self.i + 1)
               ELSE [self EXCEPT !.pc = "log_test", !.message = UnexpectedField(self.cls, key)]]
    /\ UNCHANGED <<field_mapping, label_mapping, namedtuple, unique_logs, logged, objs,
                   authenticated, last, calls, life, source, seen>>

(* log_once: if message not in _unique_logs *)
LogTest(t) ==
    /\ threads[t].pc = "log_test"
    /\ threads' = [threads EXCEPT ![t] =
           IF @.message \notin unique_logs THEN [@ EXCEPT !.pc = "log_emit"]
           ELSE AtItem(@, @.i + 1)]
    /\ UNCHANGED <<field_mapping, label_mapping, namedtuple, unique_logs, logged, objs,
                   authenticated, last, calls, life, source, seen>>

(* log_once: logger.log(level, message) *)
LogEmit(t) ==
    /\ threads[t].pc = "log_emit"
    /\ logged' = Append(logged, threads[t].message)
    /\ threads' = [threads EXCEPT ![t].pc = "log_add"]
    /\ UNCHANGED <<field_mapping, label_mapping, namedtuple, unique_logs, objs,
                   authenticated, last, calls, life, source, seen>>

(* log_once: _unique_logs.add(message) *)
LogAdd(t) ==
    /\ threads[t].pc = "log_add"
    /\ unique_logs' = unique_logs \cup {threads[t].message}
    /\ threads' = [threads EXCEPT ![t] = AtItem(@, @.i + 1)]
    /\ UNCHANGED <<field_mapping, label_mapping, namedtuple, logged, objs,
                   authenticated, last, calls, life, source, seen>>

(* from_dict: return cls(client=client, kwargs...) *)
Construct(t) ==
    /\ threads[t].pc = "construct"
    /\ LET self == threads[t]
           kwargs == IF self.dynamic # <<>>
                     THEN ("dynamic" :> List(self.dynamic)) @@ self.kwargs
                     ELSE self.kwargs
       IN  threads' = [threads EXCEPT ![t] =
               [self EXCEPT !.pc = "done",
                            !.result = New(self.cls, ("client" :> NoneV) @@ kwargs)]]
    /\ UNCHANGED <<field_mapping, label_mapping, namedtuple, unique_logs, logged, objs,
                   authenticated, last, calls, life, source, seen>>

(* Thread specification: each thread makes one from_dict call, the steps of  *)
(* the two calls in any interleaving                                         *)
NextThreads ==
    \/ \E t \in Threads, c \in ThreadClasses, d \in ThreadPayloads : Begin(t, c, d)
    \/ \E t \in Threads : FieldMappingTest(t)
    \/ \E t \in Threads : FieldMappingSet(t)
    \/ \E t \in Threads : LabelMappingTest(t)
    \/ \E t \in Threads : LabelMappingSet(t)
    \/ \E t \in Threads : LabelMappingReturn(t)
    \/ \E t \in Threads : RecordLabel(t)
    \/ \E t \in Threads : MapItem(t)
    \/ \E t \in Threads : LogTest(t)
    \/ \E t \in Threads : LogEmit(t)
    \/ \E t \in Threads : LogAdd(t)
    \/ \E t \in Threads : Construct(t)

SpecThreads == Empty /\ [][NextThreads]_vars

(* the keys of the label dict the class attribute of c refers to *)
CachedKeys(cache, c) == IF IsNone(cache[c]) THEN {} ELSE DOMAIN cache[c].m

(* C11: with two threads decoding payloads that have the same unexpected     *)
(* key, in every interleaving the warning for the key is logged at most      *)
(* once, exactly once when both calls have returned, and no step loses an    *)
(* entry of _unique_logs or of a label cache.                                *)
C11_SharedStateThreadSafe ==
    [][/\ \A i, j \in 1..Len(logged') : logged'[i] = logged'[j] => i = j
       /\ (\A t \in Threads : threads'[t].pc = "done")
              => \E i \in 1..Len(logged') : logged'[i].key = s_foo
       /\ unique_logs \subseteq unique_logs'
       /\ \A c \in Classes : CachedKeys(label_mapping, c) \subseteq CachedKeys(label_mapping', c)]_vars

-----------------------------------------------------------------------------
(* DynamicAttr on its own: from_dict, to_dict, to_attributes *)

MaxDigits == 2

(* DynamicAttr.to_attributes(dyn_attrs) *)
RECURSIVE DynamicAttrToAttributes(_)
DynamicAttrToAttributes(dyn_attrs) ==
    IF dyn_attrs = <<>> THEN <<>>
    ELSE LET n == Len(dyn_attrs)
         IN  DictSet(DynamicAttrToAttributes(SubSeq(dyn_attrs, 1, n - 1)),
                     DynamicKey(dyn_attrs[n]), DynamicAttrToDict(dyn_attrs[n]))

(* the keys given to from_dict: the prefix followed by up to MaxDigits       *)
(* characters, and keys that do not start with the prefix                    *)
DynamicSuffixes == SeqsUpTo({"0", "2", "4", "x"}, MaxDigits)

DynamicKeys ==
    {s_dynamic_ \o suffix : suffix \in DynamicSuffixes}
        \cup {<<>>, s_foo, <<"d", "y", "n", "a", "m", "i", "c">>,
              <<"D", "y", "n", "a", "m", "i", "c", "_", "4">>, <<"d", "y", "n", "_", "4">>,
              <<"4", "2">>}

(* the mappings given to from_dict: {label, value} in either order, and one  *)
(* without a label                                                           *)
DynamicDicts ==
    {Dict(<< <<s_label, Str(l)>>, <<s_value, Str(v)>> >>) : l \in {s_Size, s_Shirt}, v \in {s_L, s_M}}
        \cup {Dict(<< <<s_value, Str(v)>>, <<s_label, Str(l)>> >>) :
                  l \in {s_Size, s_Shirt}, v \in {s_L, s_M}}
        \cup {Dict(<< <<s_value, Str(s_L)>> >>)}

(* attr = DynamicAttr.from_dict(key, d) *)
DynamicFromDictCall(key, d) ==
    /\ last' = [op |-> "DynamicAttr.from_dict", key |-> key, d |-> d,
                result |-> DynamicAttrFromDict(key, d)]
    /\ UNCHANGED <<field_mapping, label_mapping, namedtuple, unique_logs, logged, objs,
                   authenticated, calls, life, source, seen, threads>>

(* attr.to_dict() and DynamicAttr.to_attributes([attr]) of the attribute     *)
(* from_dict returned                                                        *)
DynamicToDictCall ==
    /\ last.op = "DynamicAttr.from_dict"
    /\ last.result.status = "returned"
    /\ last' = [op |-> "DynamicAttr.to_dict", key |-> last.key, d |-> last.d,
                attr |-> last.result.value,
                result |-> Returned(DynamicAttrToDict(last.result.value)),
                attributes |-> Dict(DynamicAttrToAttributes(<<last.result.value>>))]
    /\ UNCHANGED <<field_mapping, label_mapping, namedtuple, unique_logs, logged, objs,
                   authenticated, calls, life, source, seen, threads>>

NextDynamic ==
    \/ \E key \in DynamicKeys, d \in DynamicDicts : DynamicFromDictCall(key, d)
    \/ DynamicToDictCall

SpecDynamic == Empty /\ [][NextDynamic]_vars

(* a mapping with exactly a label and a value *)
IsLabelValue(d) == DictKeys(d.v) = {s_label, s_value}

(* C12: DynamicAttr.from_dict(key, {label, value}) returns, for the key      *)
(* dynamic_<n> of an integer n, the attribute (n, label, value), and to_dict *)
(* and to_attributes of that attribute give back the key dynamic_<n> and the *)
(* mapping; for a key that does not start with dynamic_ it raises the error  *)
(* that names the key and returns no attribute.                              *)
C12_DynamicAttrRoundTrip ==
    /\ (last.op = "DynamicAttr.from_dict" /\ IsLabelValue(last.d))
           => LET suffix == SubSeq(last.key, Len(s_dynamic_) + 1, Len(last.key))
              IN  IF ~StartsWith(last.key, s_dynamic_)
                  THEN last.result = Raised("ValueError", <<last.key>>)
                  ELSE (suffix # <<>> /\ AllDigits(suffix))
                           => last.result =
                                  Returned(DynamicAttr(DecimalValue(suffix),
                                                       DictGet(last.d.v, s_label),
                                                       DictGet(last.d.v, s_value)))
    /\ (last.op = "DynamicAttr.to_dict" /\ IsLabelValue(last.d))
           => LET n == last.attr.field_id
                  key == s_dynamic_ \o DecimalString(n)
              IN  /\ PyEq(last.result.value, last.d)
                  /\ DictKeys(last.attributes.v) = {key}
                  /\ PyEq(DictGet(last.attributes.v, key), last.d)
                  /\ last.key = s_dynamic_ \o DecimalString(DecimalValue(
                                    SubSeq(last.key, Len(s_dynamic_) + 1, Len(last.key))))
                         => key = last.key

C12_Witness ==
    /\ last.op = "DynamicAttr.to_dict"
    /\ last.key = s_dynamic_ \o <<"4", "2">>
    /\ last.attr = DynamicAttr(42, Str(s_Size), Str(s_L))
    /\ last.d.v[1][1] = s_value

-----------------------------------------------------------------------------
(* The class-level caches under any order of first use *)

(* Mixed specification: from_dict on the writable base class and two of its  *)
(* subclasses in any order, and to_dict, == and hash() of the instance       *)
NextMixed ==
    \/ \E c \in DecodeClasses, d \in DecodePayloads :
           calls < MaxLabelCalls /\ FromDictCall(1, c, d, NoneV)
    \/ calls < MaxLabelCalls /\ ToDictCall(1)
    \/ calls < MaxLabelCalls /\ EqCall(1, 1)
    \/ calls < MaxLabelCalls /\ HashCall(1)

SpecMixed == Empty /\ [][NextMixed]_vars

(* the fields of the tuple type of class c: its own mapped fields, dynamic   *)
(* and class_name                                                            *)
OwnTupleFields(c) ==
    [i \in 1..Len(FieldMappingList(c)) |-> FieldMappingList(c)[i].class_field]
        \o <<"dynamic", "class_name">>

(* C13: whatever the order in which the classes are first used, the lookup   *)
(* table a class finds has exactly the API field names of its own mapping    *)
(* list, the tuple type it finds has exactly its own fields, and its label   *)
(* cache has no key that was recorded while decoding another class.          *)
C13_CachesPerClass ==
    \A c \in Classes :
        /\ Holder(field_mapping, c) # "nowhere"
               => DictKeys(field_mapping[Holder(field_mapping, c)].v) = ApiFields(c)
        /\ Holder(namedtuple, c) # "nowhere"
               => namedtuple[Holder(namedtuple, c)].fields = OwnTupleFields(c)
        /\ Holder(label_mapping, c) # "nowhere"
               => DOMAIN label_mapping[Holder(label_mapping, c)].m \subseteq DOMAIN seen[c]
====
